---- MODULE Spec2Model ----
(***************************************************************************)
(* A model of ravenml's dataset creation code:                             *)
(*   - the inheritable decorator registry (DecoratorSuperClass) and the    *)
(*     cli_spinner wrapper that DatasetWriter registers for its stages;    *)
(*   - CreateInput / CreateOutput and TrainInput construction;             *)
(*   - the stages of DefaultDatasetWriter and their effect on the          *)
(*     writer's fields and on the file system;                             *)
(*   - the working directory handling of the functions of utils/git.py.    *)
(* Six specifications share the variables: SpecRegistry explores class     *)
(* definitions and stage invocations, SpecCreate the construction of       *)
(* CreateInput and CreateOutput over every configuration, SpecInputs the   *)
(* construction of a CreateInput or a TrainInput, Spec one dataset         *)
(* creation followed by the writer's stages, SpecSplit write_dataset over  *)
(* the lists and ratios it can be given, and SpecGit the calls of git.py.  *)
(***************************************************************************)
EXTENDS Integers, Sequences, FiniteSets, TLC

VARIABLES
    classes,     \* the chain of classes defined so far, DatasetWriter first
    call,        \* the latest stage invocation on an instance of the last class
    test_mode,   \* in_test_mode(): sys has the attribute _called_from_test
    config,      \* the configuration dict handed to CreateInput
    fs,          \* the directories and files the creation touches
    cr,          \* the CreateInput object under construction
    oracle,      \* the prompts put to the user so far, in order
    tr,          \* the TrainInput object under construction
    git,         \* the process working directory and the latest git.py call
    output,      \* the CreateOutput object
    writer,      \* the dataset writer (a plugin's subclass of DefaultDatasetWriter)
    objects,     \* what construct_all returned to the caller
    hist         \* which stages have completed or failed, and how many ran

vars ==
    <<classes, call, test_mode, config, fs, cr, oracle, tr, git, output, writer, objects, hist>>
createVars == <<config, fs, cr, oracle, output>>
writerVars == <<writer, objects, hist>>

\* ------------------------------------------------------------------ bounds

\* Number of plugin classes defined below DefaultDatasetWriter.
MaxPluginClasses == 2

\* Number of stage invocations on one writer.
MaxStageCalls == 4

\* ------------------------------------------------------------ python values

\* Python's None / False where the model needs them among strings.
None == "None"
PyFalse == "False"

\* Truthiness of a decorator argument: a non-empty string.
Truthy(a) == a \notin {"", PyFalse, None}

\* ----------------------------------------------------- cli_spinner_wrapper

SpinnerDec == "cli_spinner_wrapper"
\* A decorator a plugin defines itself, following the protocol of the
\* DecoratorSuperClass docstring (it sets inherit_decorator and args).
OtherDec == "plugin_wrapper"

MethodNames ==
    {"load_image_ids", "interactive_filter", "load_data", "construct_all",
     "write_dataset", "write_metadata", "write_additional_files"}

\* What a class body says about one method name.
Absent == [kind |-> "absent", text |-> ""]
Raw == [kind |-> "raw", text |-> ""]
Spinner(text) == [kind |-> "spinner", text |-> text]
Other(text) == [kind |-> "other", text |-> text]

\* class DatasetWriter(DecoratorSuperClass): the stages and their decorators.
DatasetWriterBody ==
    [n \in MethodNames |->
        CASE n = "load_data" -> Spinner("Copying data into temp folder...")
          [] n = "write_dataset" -> Spinner("Writing out dataset locally...")
          [] n = "write_metadata" -> Spinner("Writing out metadata locally...")
          [] n = "write_additional_files" -> Spinner("Writing out additional files...")
          [] OTHER -> Raw]

\* class DefaultDatasetWriter(DatasetWriter): the stages it overrides, none
\* of them decorated.
DefaultDatasetWriterBody ==
    [n \in MethodNames |->
        IF n \in {"load_image_ids", "interactive_filter", "load_data",
                  "write_metadata", "write_dataset"}
        THEN Raw ELSE Absent]

\* Texts a plugin gives its own decorators.
PluginTexts == {"Plugin stage..."}

\* The class bodies a plugin may write: it overrides at most one stage,
\* undecorated, with its own cli_spinner_wrapper, or with its own decorator.
PluginBodies ==
    {[n \in MethodNames |-> Absent]} \cup
    {[n \in MethodNames |-> IF n = m THEN k ELSE Absent] :
        m \in MethodNames,
        k \in {Raw} \cup {Spinner(t) : t \in PluginTexts}
                    \cup {Other(t) : t \in PluginTexts}}

\* ------------------------------------------------------------------ methods

\* A function object: the class whose body wrote the undecorated function,
\* and the wrappers around it, outermost first.
NoMethod == [impl |-> 0, layers |-> <<>>]
NoEntry == [dec |-> None, args |-> PyFalse, kwargs |-> PyFalse]

Layer(dec, args) == [dec |-> dec, args |-> args]

\* cli_spinner_wrapper(text)(func): wrapper.inherit_decorator and wrapper.args
\* are those of the outermost layer.
Wrap(dec, args, m) == [m EXCEPT !.layers = <<Layer(dec, args)>> \o @]

\* The object a class body binds to a name before __init_subclass__ runs.
BodyMethod(cls, b) ==
    CASE b.kind = "absent" -> NoMethod
      [] b.kind = "raw" -> [impl |-> cls, layers |-> <<>>]
      [] b.kind = "spinner" -> Wrap(SpinnerDec, b.text, [impl |-> cls, layers |-> <<>>])
      [] b.kind = "other" -> Wrap(OtherDec, b.text, [impl |-> cls, layers |-> <<>>])

\* getattr(obj, "inherit_decorator", <default>), None standing for the default.
InheritDecorator(m) == IF m.layers = <<>> THEN None ELSE Head(m.layers).dec
\* getattr(obj, "args", False)
ArgsAttr(m) == IF m.layers = <<>> THEN PyFalse ELSE Head(m.layers).args
\* getattr(obj, "kwargs", False): no decorator of the program sets it.
KwargsAttr(m) == PyFalse

\* ----------------------------------------------- DecoratorSuperClass

\* A re-decoration that leaves the override as the class body wrote it.
RedecorateNot(entry, m) == m

\* Lines 33-43: the re-decoration of one method by its registry entry.
Redecorate(entry, m) ==
    IF Truthy(entry.args) \/ Truthy(entry.kwargs)
    THEN Wrap(entry.dec, entry.args, m)
    ELSE Wrap(entry.dec, entry.kwargs, m)

\* __init_subclass__: the registry is the parent's, plus the decorated
\* methods of this body whose names are not registered yet; then every
\* registered name this body defines is re-decorated unless it already
\* carries the registered decorator.
Annotate(parentRegistry, dict) ==
    [n \in MethodNames |->
        IF InheritDecorator(dict[n]) # None /\ parentRegistry[n] = NoEntry
        THEN [dec |-> InheritDecorator(dict[n]), args |-> ArgsAttr(dict[n]),
              kwargs |-> KwargsAttr(dict[n])]
        ELSE parentRegistry[n]]

InitSubclass(parentRegistry, dict) ==
    LET registry == Annotate(parentRegistry, dict)
    IN  [registry |-> registry,
         dict |-> [n \in MethodNames |->
                     IF /\ registry[n] # NoEntry
                        /\ dict[n] # NoMethod
                        /\ InheritDecorator(dict[n]) # registry[n].dec
                     THEN Redecorate(registry[n], dict[n])
                     ELSE dict[n]]]

EmptyRegistry == [n \in MethodNames |-> NoEntry]

\* The class statement: position `idx` in the chain, parent idx - 1.
MakeClass(idx, parentRegistry, body) ==
    LET made == InitSubclass(parentRegistry,
                             [n \in MethodNames |-> BodyMethod(idx, body[n])])
    IN  [body |-> body, dict |-> made.dict, registry |-> made.registry]

DatasetWriterCls == 1
DefaultDatasetWriterCls == 2

DatasetWriterClass == MakeClass(DatasetWriterCls, EmptyRegistry, DatasetWriterBody)
DefaultDatasetWriterClass ==
    MakeClass(DefaultDatasetWriterCls, DatasetWriterClass.registry, DefaultDatasetWriterBody)

\* Attribute lookup along the method resolution order of class c.
RECURSIVE Dispatch(_, _, _)
Dispatch(cs, c, n) ==
    IF c = 0 THEN NoMethod
    ELSE IF cs[c].dict[n] # NoMethod THEN cs[c].dict[n]
    ELSE Dispatch(cs, c - 1, n)

\* ------------------------------------------------------------- cli_spinner

Sig(dec, text, tail) == [dec |-> dec, text |-> text, tail |-> tail]

\* Outcomes of a function body: "ok", or the Exception it raises.
PluginErrors == {"PluginError"}
NotImplemented == "NotImplementedError"
TypeErr == "TypeError"

\* A wrapper that announces failure and returns normally.
CliSpinnerSwallow(dec, text, inner) ==
    [log |-> <<Sig(dec, text, "start")>> \o inner.log
             \o <<Sig(dec, text, IF inner.res = "ok" THEN "Complete." ELSE "Failed.")>>,
     res |-> "ok"]

\* cli_spinner(text, func): spinner.start(); the function; on an Exception
\* succeed(text + 'Failed.') and re-raise; otherwise succeed(text + 'Complete.').
\* text + '...' raises TypeError when text is not a string.
CliSpinner(dec, text, inner) ==
    IF text \in {PyFalse, None}
    THEN [log |-> <<Sig(dec, text, "start")>> \o inner.log, res |-> TypeErr]
    ELSE [log |-> <<Sig(dec, text, "start")>> \o inner.log
                  \o <<Sig(dec, text, IF inner.res = "ok" THEN "Complete." ELSE "Failed.")>>,
          res |-> inner.res]

\* The call of a method object: its wrappers from the outermost in, around
\* the undecorated function whose outcome is `out`.
RECURSIVE RunLayers(_, _)
RunLayers(layers, out) ==
    IF layers = <<>> THEN [log |-> <<>>, res |-> out]
    ELSE CliSpinner(Head(layers).dec, Head(layers).args, RunLayers(Tail(layers), out))

\* Spinner: in test mode start() and succeed() return before touching Halo.
SpinnerShown(tm, log) == IF tm THEN <<>> ELSE log

\* The stage bodies of DatasetWriter all raise NotImplementedError.
FuncOutcome(impl, choice) == IF impl = DatasetWriterCls THEN NotImplemented ELSE choice

\* --------------------------------------------------------------- the config

Given(v) == [given |-> TRUE, value |-> v]
Missing == [given |-> FALSE, value |-> 0]
MissingList == [given |-> FALSE, value |-> <<>>]

\* test_percent in hundredths: 20 is 0.2, 150 is 1.5.
TestPercents == {20, 150}

\* The imagesets get_imageset_names() finds on S3.
AvailableImagesets == {"setA"}

\* A configuration that states every choice.
BatchConfig ==
    [dataset_path |-> "dp", overwrite_local |-> "True", imageset |-> Given(<<"setA">>),
     created_by |-> "given", comments |-> "given", dataset_name |-> "given",
     kfolds |-> "given", test_percent |-> Given(20), plugin |-> "given",
     upload |-> "True", delete_local |-> "True"]

\* config.get(key): "absent" stands for a key the file does not have.
ConfigsCreate ==
    [dataset_path : {"absent", "dp"},
     overwrite_local : {"absent", "True", "False"},
     imageset : {MissingList, Given(<<"setA">>), Given(<<"setA", "nosuch">>)},
     created_by : {"absent", "given"},
     comments : {"absent", "given"},
     dataset_name : {"absent", "given"},
     kfolds : {"given"},
     test_percent : {Missing} \cup {Given(v) : v \in TestPercents},
     plugin : {"absent", "given"},
     upload : {"absent", "True"},
     delete_local : {"absent", "False"}]


\* --------------------------------------------------------- the file system

NoFile == [state |-> "absent", by |-> None, image_ids |-> <<>>]
NoDir == [exists |-> FALSE, files |-> <<>>]

\* target: the directory config['dataset_path'] names ("old" holds old data);
\* temp: the plugin cache's 'temp' subpath; root: <dataset_path>/<dataset_name>;
\* meta: root/metadata.json; dirops: the directory operations performed.
FreshFs(target, temp) ==
    [target |-> target, temp |-> temp, root |-> FALSE, meta |-> NoFile,
     meta_opens |-> 0, scratch |-> NoDir, test |-> NoDir, train |-> NoDir,
     written |-> <<>>, dirops |-> {}]

\* ------------------------------------------------------------- CreateInput

NewCreate ==
    [pc |-> "artifact_path", attrs |-> {}, metadata |-> {}, dataset_path |-> None,
     imageset_list |-> <<>>, error |-> None]

NoOutput == [made |-> FALSE, upload |-> None, delete_local |-> None]

Ask(prompt) == oracle' = Append(oracle, prompt)

\* user_confirms('... contains old data. Overwrite?') and what the user answered.
Overwrite(answer) ==
    IF answer THEN "user_confirms:overwrite -> True" ELSE "user_confirms:overwrite -> False"

Raise(c, err) == [c EXCEPT !.pc = "raised", !.error = err]

\* RMLCache.ensure_clean_subpath('temp') then ensure_subpath_exists('temp').
CleanTemp(f) ==
    [f EXCEPT !.temp = "empty", !.dirops = @ \cup {"clean:temp", "makedirs:temp"}]

\* An artifact path step that goes on after the user declined the overwrite.
CI_ArtifactPathNoExit ==
    /\ cr.pc = "artifact_path"
    /\ IF config.dataset_path = "absent"
       THEN /\ fs' = CleanTemp(fs)
            /\ UNCHANGED oracle
       ELSE IF fs.target = "old"
            THEN IF config.overwrite_local = "True"
                 THEN /\ fs' = [fs EXCEPT !.target = "empty",
                                          !.dirops = @ \cup {"rmtree:dp", "makedirs:dp"}]
                      /\ UNCHANGED oracle
                 ELSE \E answer \in BOOLEAN :
                         /\ Ask(Overwrite(answer))
                         /\ fs' = IF answer
                                  THEN [fs EXCEPT !.target = "empty",
                                                  !.dirops = @ \cup {"rmtree:dp", "makedirs:dp"}]
                                  ELSE fs
            ELSE /\ fs' = [fs EXCEPT !.target = "empty",
                                     !.dirops = IF fs.target = "absent"
                                                THEN @ \cup {"makedirs:dp"} ELSE @]
                 /\ UNCHANGED oracle
    /\ cr' = [cr EXCEPT !.pc = "imageset",
                        !.dataset_path = IF config.dataset_path = "absent"
                                         THEN "cache/temp" ELSE "dp",
                        !.attrs = @ \cup {"config", "plugin_cache", "dataset_path"}]
    /\ UNCHANGED <<git, tr, classes, call, test_mode, config, output, writerVars>>

\* Lines 51-69: where the dataset will live.
CI_ArtifactPath ==
    /\ cr.pc = "artifact_path"
    /\ IF config.dataset_path = "absent"
       THEN /\ fs' = CleanTemp(fs)
            /\ cr' = [cr EXCEPT !.pc = "imageset", !.dataset_path = "cache/temp",
                                !.attrs = @ \cup {"config", "plugin_cache", "dataset_path"}]
            /\ UNCHANGED oracle
       ELSE IF fs.target = "old"
            THEN IF config.overwrite_local = "True"
                 THEN /\ fs' = [fs EXCEPT !.target = "empty",
                                          !.dirops = @ \cup {"rmtree:dp", "makedirs:dp"}]
                      /\ cr' = [cr EXCEPT !.pc = "imageset", !.dataset_path = "dp",
                                          !.attrs = @ \cup {"config", "plugin_cache", "dataset_path"}]
                      /\ UNCHANGED oracle
                 ELSE \E answer \in BOOLEAN :
                         /\ Ask(Overwrite(answer))
                         /\ IF answer
                            THEN /\ fs' = [fs EXCEPT !.target = "empty",
                                                     !.dirops = @ \cup {"rmtree:dp", "makedirs:dp"}]
                                 /\ cr' = [cr EXCEPT !.pc = "imageset", !.dataset_path = "dp",
                                                     !.attrs = @ \cup {"config", "plugin_cache",
                                                                       "dataset_path"}]
                            ELSE /\ fs' = fs
                                 /\ cr' = [cr EXCEPT !.pc = "exited",
                                                     !.attrs = @ \cup {"config", "plugin_cache"}]
            ELSE /\ fs' = [fs EXCEPT !.target = "empty",
                                     !.dirops = IF fs.target = "absent"
                                                THEN @ \cup {"makedirs:dp"} ELSE @]
                 /\ cr' = [cr EXCEPT !.pc = "imageset", !.dataset_path = "dp",
                                     !.attrs = @ \cup {"config", "plugin_cache", "dataset_path"}]
                 /\ UNCHANGED oracle
    /\ UNCHANGED <<git, tr, classes, call, test_mode, config, output, writerVars>>

\* Lines 73-81: which imagesets to use.
CI_Imageset ==
    /\ cr.pc = "imageset"
    /\ IF ~config.imageset.given
       THEN /\ Ask("user_selects:imageset")
            /\ \E chosen \in {<<n>> : n \in AvailableImagesets} :
                   cr' = [cr EXCEPT !.pc = "metadata", !.imageset_list = chosen]
       ELSE /\ UNCHANGED oracle
            /\ IF \E i \in 1..Len(config.imageset.value) :
                      config.imageset.value[i] \notin AvailableImagesets
               THEN cr' = Raise(cr, "BadParameter")
               ELSE cr' = [cr EXCEPT !.pc = "metadata", !.imageset_list = config.imageset.value]
    /\ UNCHANGED <<git, tr, classes, call, test_mode, config, fs, output, writerVars>>

\* Lines 85-95: created_by, comments, kfolds and test_percent of the metadata.
CI_Metadata ==
    /\ cr.pc = "metadata"
    /\ oracle' = oracle
          \o (IF config.created_by = "absent" THEN <<"user_input:created_by">> ELSE <<>>)
          \o (IF config.comments = "absent" THEN <<"user_input:comments">> ELSE <<>>)
    /\ cr' = [cr EXCEPT !.pc = "dataset_dir",
                        !.attrs = @ \cup {"metadata"},
                        !.metadata = @ \cup {"created_by", "comments"}
                            \cup (IF config.kfolds = "given" THEN {"kfolds"} ELSE {})
                            \cup (IF config.test_percent.given /\ config.test_percent.value # 0
                                  THEN {"test_percent"} ELSE {})]
    /\ UNCHANGED <<git, tr, classes, call, test_mode, config, fs, output, writerVars>>

\* Lines 98-99: the dataset's name and its directory, dp / dataset_name with
\* dp still None when the config names no dataset_path.
CI_DatasetDir ==
    /\ cr.pc = "dataset_dir"
    /\ oracle' = oracle
          \o (IF config.dataset_name = "absent" THEN <<"user_input:dataset_name">> ELSE <<>>)
    /\ IF config.dataset_path = "absent"
       THEN /\ cr' = [Raise(cr, "TypeError") EXCEPT !.metadata = @ \cup {"dataset_name"}]
            /\ fs' = fs
       ELSE /\ cr' = [cr EXCEPT !.pc = "download", !.metadata = @ \cup {"dataset_name"}]
            /\ fs' = [fs EXCEPT !.target = "used", !.root = TRUE,
                                !.dirops = @ \cup {"makedirs:root"}]
    /\ UNCHANGED <<git, tr, classes, call, test_mode, config, output, writerVars>>

\* Lines 103-110: default_filter_and_load fetches the imagesets; a fetch can fail.
CI_Download ==
    /\ cr.pc = "download"
    /\ \E ok \in BOOLEAN :
          cr' = IF ok
                THEN [cr EXCEPT !.pc = "plugin",
                                !.metadata = @ \cup {"date_started_at", "imagesets_used",
                                                     "imageset_data"}]
                ELSE Raise(cr, "DownloadError")
    /\ UNCHANGED <<git, tr, classes, call, test_mode, config, fs, oracle, output, writerVars>>

\* Lines 115-122: the plugin's metadata, and the required 'plugin' field.
CI_Plugin ==
    /\ cr.pc = "plugin"
    /\ cr' = IF config.plugin = "absent"
             THEN [Raise(cr, "BadParameter") EXCEPT !.attrs = @ \cup {"plugin_metadata"},
                                                    !.metadata = @ \cup {"architecture"}]
             ELSE [cr EXCEPT !.pc = "write_metadata",
                             !.attrs = @ \cup {"plugin_metadata", "plugin_config"},
                             !.metadata = @ \cup {"architecture"}]
    /\ UNCHANGED <<git, tr, classes, call, test_mode, config, fs, oracle, output, writerVars>>

\* open(path, 'w') then json.dump(metadata, outfile): the file is created or
\* truncated first; a dump that fails part-way leaves what it wrote so far.
WriteJson(file, by, ids, ok) ==
    IF ok THEN [state |-> "complete", by |-> by, image_ids |-> ids]
    ELSE [state |-> "partial", by |-> by, image_ids |-> <<>>]

\* The ids default_filter_and_load returned for the imagesets.
LoadedImageIds == <<"001", "002">>

\* Lines 124-129 and 131-163: CreateInput.write_metadata.
CI_WriteMetadata ==
    /\ cr.pc = "write_metadata"
    /\ \E ok \in BOOLEAN :
          /\ fs' = [fs EXCEPT !.meta = WriteJson(@, "CreateInput", LoadedImageIds, ok),
                               !.meta_opens = @ + 1]
          /\ cr' = IF ok THEN [cr EXCEPT !.pc = "done"] ELSE Raise(cr, "SerializationError")
    /\ UNCHANGED <<git, tr, classes, call, test_mode, config, oracle, output, writerVars>>

\* ------------------------------------------------------------ CreateOutput

\* Lines 167-171: upload and delete_local come from the config when the key
\* is there, from the user otherwise.
CO_Init ==
    /\ cr.pc = "done"
    /\ ~output.made
    /\ oracle' = oracle
          \o (IF config.upload = "absent" THEN <<"user_confirms:upload">> ELSE <<>>)
          \o (IF config.delete_local = "absent" THEN <<"user_confirms:delete_local">> ELSE <<>>)
    /\ \E u \in (IF config.upload = "absent" THEN {"True", "False"} ELSE {config.upload}),
          d \in (IF config.delete_local = "absent" THEN {"True", "False"}
                 ELSE {config.delete_local}) :
          output' = [made |-> TRUE, upload |-> u, delete_local |-> d]
    /\ UNCHANGED <<git, tr, classes, call, test_mode, config, fs, cr, writerVars>>

\* -------------------------------------------------------------- TrainInput

\* TrainInput(dataset_name, artifact_path, overwrite, cache_name): the
\* arguments of one construction, None for an argument left out.
TrainArgs ==
    [dataset_name : {None, "given"}, artifact_path : {None, "ap"}, overwrite : BOOLEAN]

NoTrain ==
    [pc |-> "none", args |-> [dataset_name |-> None, artifact_path |-> None,
                              overwrite |-> FALSE],
     artifact_path |-> None, dataset |-> None, error |-> None]

NewTrain(args) == [NoTrain EXCEPT !.pc = "artifact_path", !.args = args]

\* Lines 56-75: where the artifacts will live; fs.target is the directory
\* artifact_path names.
TI_ArtifactPath ==
    /\ tr.pc = "artifact_path"
    /\ IF tr.args.artifact_path = None
       THEN /\ fs' = CleanTemp(fs)
            /\ tr' = [tr EXCEPT !.pc = "dataset", !.artifact_path = "cache/temp"]
            /\ UNCHANGED oracle
       ELSE IF fs.target = "old"
            THEN IF tr.args.overwrite
                 THEN /\ fs' = [fs EXCEPT !.target = "empty",
                                          !.dirops = @ \cup {"rmtree:ap", "makedirs:ap"}]
                      /\ tr' = [tr EXCEPT !.pc = "dataset", !.artifact_path = "ap"]
                      /\ UNCHANGED oracle
                 ELSE \E answer \in BOOLEAN :
                         /\ Ask(Overwrite(answer))
                         /\ IF answer
                            THEN /\ fs' = [fs EXCEPT !.target = "empty",
                                                     !.dirops = @ \cup {"rmtree:ap",
                                                                        "makedirs:ap"}]
                                 /\ tr' = [tr EXCEPT !.pc = "dataset", !.artifact_path = "ap"]
                            ELSE /\ fs' = fs
                                 /\ tr' = [tr EXCEPT !.pc = "exited"]
            ELSE /\ fs' = [fs EXCEPT !.target = "empty",
                                     !.dirops = IF fs.target = "absent"
                                                THEN @ \cup {"makedirs:ap"} ELSE @]
                 /\ tr' = [tr EXCEPT !.pc = "dataset", !.artifact_path = "ap"]
                 /\ UNCHANGED oracle
    /\ UNCHANGED <<git, classes, call, test_mode, config, cr, output, writerVars>>

\* Lines 79-84: the dataset is asked for when no name was given, then
\* fetched; the fetch can fail.
TI_Dataset ==
    /\ tr.pc = "dataset"
    /\ oracle' = oracle
          \o (IF tr.args.dataset_name = None THEN <<"user_selects:dataset">> ELSE <<>>)
    /\ \E ok \in BOOLEAN :
          tr' = IF ok THEN [tr EXCEPT !.pc = "done", !.dataset = "downloaded"]
                ELSE [tr EXCEPT !.pc = "raised", !.error = "DownloadError"]
    /\ UNCHANGED <<git, classes, call, test_mode, config, fs, cr, output, writerVars>>

\* ------------------------------------------------------------------ git.py

\* Directories: where the process may be, and the paths the functions are given.
GitDirs == {"home", "repo", "plugin"}
GitPaths == {"repo", "plugin"}

MaxGitCalls == 2

StartGit(dir) ==
    [cwd |-> dir, ncalls |-> 0, fn |-> None, path |-> None, before |-> None, result |-> None]
NoGit == StartGit("home")

\* How a call of git_sha or git_patch_tracked runs: chdir(path) raises, the
\* git command exits non-zero (check_output raises), or it succeeds.
GitRuns == {"chdir fails", "command fails", "ok"}

\* git_patch_untracked besides: git ls-files lists nothing, communicate()
\* times out, or the patch comes back with or without error output.
GitUntrackedRuns == GitRuns \cup {"no untracked files", "timeout", "ok with stderr"}

\* cwd = Path.cwd(); chdir(path); check_output(...); chdir(cwd); return out
GitCheckOutput(g, fn, path, run) ==
    [cwd |-> CASE run = "chdir fails" -> g.cwd
               [] run = "command fails" -> path
               [] OTHER -> g.cwd,
     ncalls |-> g.ncalls + 1, fn |-> fn, path |-> path, before |-> g.cwd,
     result |-> CASE run = "chdir fails" -> "FileNotFoundError"
                  [] run = "command fails" -> "CalledProcessError"
                  [] OTHER -> "returned"]

\* Lines 13-23
GitSha ==
    /\ git.ncalls < MaxGitCalls
    /\ \E path \in GitPaths, run \in GitRuns :
          git' = GitCheckOutput(git, "git_sha", path, run)
    /\ UNCHANGED <<classes, call, test_mode, createVars, tr, writerVars>>

\* Lines 25-35
GitPatchTracked ==
    /\ git.ncalls < MaxGitCalls
    /\ \E path \in GitPaths, run \in GitRuns :
          git' = GitCheckOutput(git, "git_patch_tracked", path, run)
    /\ UNCHANGED <<classes, call, test_mode, createVars, tr, writerVars>>

\* Lines 37-59: the return for no untracked files comes before chdir(cwd);
\* TimeoutExpired is not a name of the module, so a timeout ends in NameError.
GitPatchUntracked ==
    /\ git.ncalls < MaxGitCalls
    /\ \E path \in GitPaths, run \in GitUntrackedRuns :
          git' = [cwd |-> CASE run = "chdir fails" -> git.cwd
                            [] run \in {"command fails", "no untracked files", "timeout"}
                                 -> path
                            [] OTHER -> git.cwd,
                  ncalls |-> git.ncalls + 1, fn |-> "git_patch_untracked", path |-> path,
                  before |-> git.cwd,
                  result |-> CASE run = "chdir fails" -> "FileNotFoundError"
                               [] run = "command fails" -> "CalledProcessError"
                               [] run = "timeout" -> "NameError"
                               [] OTHER -> "returned"]
    /\ UNCHANGED <<classes, call, test_mode, createVars, tr, writerVars>>

NoCall == [name |-> None, impl |-> 0, layers |-> <<>>, out |-> None,
           log |-> <<>>, shown |-> <<>>, res |-> None, before |-> {},
           empty_selection |-> FALSE]


\* ----------------------------------------------------------- the imagesets

\* Imageset directories: two of them have the same final path component.
PathA == [dir |-> "imagesets/a", name |-> "set1"]
PathB == [dir |-> "imagesets/b", name |-> "set1"]
PathC == [dir |-> "imagesets/a", name |-> "set2"]

MetadataPrefix == "meta_"

\* os.scandir(data_dir): the entries of each imageset directory.
DirEntries(p) ==
    CASE p = PathA -> <<[prefix |-> "meta_", id |-> "001", sun |-> TRUE],
                        [prefix |-> "image_", id |-> "001", sun |-> FALSE],
                        [prefix |-> "meta_", id |-> "002", sun |-> FALSE]>>
      [] p = PathB -> <<[prefix |-> "meta_", id |-> "001", sun |-> FALSE]>>
      [] p = PathC -> <<[prefix |-> "meta_", id |-> "003", sun |-> TRUE]>>

ImagesetPathChoices == {<<PathA, PathB>>, <<PathA, PathC>>}

\* ------------------------------------------------------------- the writer

\* The rounding split_data applies to len(objects) * test_percent: to the
\* nearest integer, or upwards. Both give 2 of 10 and 2 of 8 at 0.2.
SplitPolicies == {"round", "ceil"}

NoWriter ==
    [state |-> "none", suffix |-> None, test_percent |-> 0, imageset_paths |-> <<>>,
     tags_df |-> <<>>, image_ids |-> MissingList, groups |-> <<>>, rounding |-> None]
NoObjects == [made |-> FALSE, list |-> <<>>]
NoHist == [completed |-> {}, failed |-> {}, ncalls |-> 0]

\* The plugin's writer class: DefaultDatasetWriter's docstring has the plugin
\* overload construct_all, write_data and write_additional_files.
PluginWriterBody ==
    [n \in MethodNames |->
        IF n \in {"construct_all", "write_additional_files"} THEN Raw ELSE Absent]
PluginWriterCls == 3
PluginWriterClass ==
    MakeClass(PluginWriterCls, DefaultDatasetWriterClass.registry, PluginWriterBody)

\* DatasetWriter.__init__ (through DefaultDatasetWriter.__init__): the
\* 'metadata' entry of associated_files is required; kfolds, test_percent,
\* imageset_paths and plugin_metadata['temp_dir_path'] are read from the
\* CreateInput, which has them only if the plugin put them there.
WriterInit ==
    /\ cr.pc = "done"
    /\ writer.state = "none"
    /\ \E assoc \in {"none", ".json", ".yml"}, augmented \in BOOLEAN,
          paths \in ImagesetPathChoices, tp \in TestPercents, pol \in SplitPolicies :
          writer' =
             IF assoc = "none" THEN [writer EXCEPT !.state = "Exception"]
             ELSE IF ~augmented THEN [writer EXCEPT !.state = "AttributeError", !.suffix = assoc]
             ELSE [writer EXCEPT !.state = "ready", !.suffix = assoc,
                                 !.test_percent = IF config.test_percent.given
                                                  THEN config.test_percent.value ELSE tp,
                                 !.imageset_paths = paths, !.rounding = pol]
    /\ UNCHANGED <<git, tr, classes, call, test_mode, createVars, objects, hist>>

\* The record of a stage invocation on the writer: the method the class
\* dispatches to, run through its wrappers around the body's outcome.
Record(name, out) ==
    LET m == Dispatch(classes, Len(classes), name)
        run == RunLayers(m.layers, out)
    IN  /\ call' = [name |-> name, impl |-> m.impl, layers |-> m.layers, out |-> out,
                    log |-> run.log, shown |-> SpinnerShown(test_mode, run.log),
                    res |-> run.res, before |-> hist.completed,
                    empty_selection |-> writer.image_ids.given /\ writer.image_ids.value = <<>>]
        /\ hist' = [completed |-> IF run.res = "ok" THEN hist.completed \cup {name}
                                  ELSE hist.completed,
                    failed |-> IF run.res = "ok" THEN hist.failed ELSE hist.failed \cup {name},
                    ncalls |-> hist.ncalls + 1]

CanCall == writer.state = "ready" /\ hist.ncalls < MaxStageCalls

\* The rows one imageset directory adds to tags_df, in scandir order.
RECURSIVE ScanRows(_, _)
ScanRows(p, entries) ==
    IF entries = <<>> THEN <<>>
    ELSE (IF Head(entries).prefix = MetadataPrefix
          THEN <<[path |-> p, id |-> Head(entries).id, sun |-> Head(entries).sun]>>
          ELSE <<>>) \o ScanRows(p, Tail(entries))

RECURSIVE ScanAll(_)
ScanAll(paths) ==
    IF paths = <<>> THEN <<>>
    ELSE ScanRows(Head(paths), DirEntries(Head(paths))) \o ScanAll(Tail(paths))

\* tags_df.index.tolist()
IndexOf(df) == [i \in 1..Len(df) |-> <<df[i].path, df[i].id>>]

\* A load_image_ids that scans the imagesets before it looks at the suffix.
LoadImageIdsScanFirst ==
    /\ CanCall
    /\ LET df == writer.tags_df \o ScanAll(writer.imageset_paths)
       IN  /\ writer' = [writer EXCEPT !.tags_df = df, !.image_ids = Given(IndexOf(df))]
           /\ Record("load_image_ids", IF writer.suffix # ".json" THEN "Exception" ELSE "ok")
    /\ UNCHANGED <<git, tr, classes, test_mode, createVars, objects>>

\* DefaultDatasetWriter.load_image_ids: only '.json' metadata is supported;
\* the rows found are concatenated to the tags_df the writer already has.
LoadImageIds ==
    /\ CanCall
    /\ IF writer.suffix # ".json"
       THEN /\ Record("load_image_ids", "Exception")
            /\ UNCHANGED writer
       ELSE LET df == writer.tags_df \o ScanAll(writer.imageset_paths)
            IN  /\ writer' = [writer EXCEPT !.tags_df = df,
                                            !.image_ids = Given(IndexOf(df))]
                /\ Record("load_image_ids", "ok")
    /\ UNCHANGED <<git, tr, classes, test_mode, createVars, objects>>

\* default_filter(tags_df, filter_metadata): the user keeps every record,
\* the records tagged 'sun', or none.
FilterChoices == {"all", "sun", "none"}
Keeps(choice, row) ==
    CASE choice = "all" -> TRUE
      [] choice = "sun" -> row.sun
      [] choice = "none" -> FALSE
DefaultFilter(df, choice) == IndexOf(SelectSeq(df, LAMBDA row : Keeps(choice, row)))

\* DefaultDatasetWriter.interactive_filter
InteractiveFilter ==
    /\ CanCall
    /\ \E choice \in FilterChoices :
          writer' = [writer EXCEPT !.image_ids = Given(DefaultFilter(writer.tags_df, choice)),
                                   !.groups = <<choice>>]
    /\ Record("interactive_filter", "ok")
    /\ UNCHANGED <<git, tr, classes, test_mode, createVars, objects>>

\* copy_data_locally(image_ids, dest, associated_files): the destination is
\* made anew and the files of every id are copied into it; a copy that fails
\* leaves the files copied before it.
CopyDataLocally(ids, ok) ==
    [exists |-> TRUE,
     files |-> IF ok THEN ids ELSE SubSeq(ids, 1, Len(ids) - 1)]

\* DefaultDatasetWriter.load_data: iterating image_ids = None is a TypeError.
LoadData ==
    /\ CanCall
    /\ IF ~writer.image_ids.given
       THEN /\ Record("load_data", TypeErr)
            /\ UNCHANGED fs
       ELSE \E ok \in BOOLEAN :
               /\ ok \/ writer.image_ids.value # <<>>
               /\ fs' = [fs EXCEPT !.scratch = CopyDataLocally(writer.image_ids.value, ok),
                                   !.dirops = @ \cup {"makedirs:scratch"}]
               /\ Record("load_data", IF ok THEN "ok" ELSE "IOError")
    /\ UNCHANGED <<git, tr, classes, test_mode, config, cr, oracle, output, writer, objects>>

\* construct_all, the plugin's: one object per record in the scratch
\* directory, each carrying its image_id.
ConstructAll ==
    /\ CanCall
    /\ \E out \in {"ok"} \cup PluginErrors :
          /\ objects' = IF out = "ok"
                        THEN [made |-> TRUE,
                              list |-> [i \in 1..Len(fs.scratch.files) |-> fs.scratch.files[i][2]]]
                        ELSE objects
          /\ Record("construct_all", out)
    /\ UNCHANGED <<git, tr, classes, test_mode, createVars, writer>>

\* split_data(objects, test_percent): the first SplitCount objects are held
\* out, the rest is the remainder, both in input order; a ratio outside
\* [0, 1] is a configuration error. test_percent is in hundredths.
SplitValid(percent) == percent \in 0..100
SplitCount(n, percent, pol) ==
    IF pol = "round" THEN (n * percent + 50) \div 100 ELSE (n * percent + 99) \div 100
\* A split that holds out the last objects of the list instead of the first.
HeldOutFromEnd(list, percent, pol) ==
    SubSeq(list, Len(list) - SplitCount(Len(list), percent, pol) + 1, Len(list))

HeldOut(list, percent, pol) == SubSeq(list, 1, SplitCount(Len(list), percent, pol))
Remainder(list, percent, pol) ==
    SubSeq(list, SplitCount(Len(list), percent, pol) + 1, Len(list))

\* A write_out_complete_set that hands all of data to the 'train' call.
WriteOutCompleteSetNoResplit(data, percent, pol) ==
    <<[split_type |-> "train", path |-> "splits/complete/train", objects |-> data],
      [split_type |-> "test", path |-> "splits/complete/train", objects |-> <<>>]>>

\* A write_out_complete_set that writes the 'test' subset first.
WriteOutCompleteSetTestFirst(data, percent, pol) ==
    <<[split_type |-> "test", path |-> "splits/complete/train",
       objects |-> HeldOut(data, percent, pol)],
      [split_type |-> "train", path |-> "splits/complete/train",
       objects |-> Remainder(data, percent, pol)]>>

\* write_out_complete_set(path, data): data_path = path / 'train' is made if
\* it is not there, data is split again with self.test_percent, and both
\* write_data calls are given data_path.
WriteOutCompleteSet(data, percent, pol) ==
    <<[split_type |-> "train", path |-> "splits/complete/train",
       objects |-> Remainder(data, percent, pol)],
      [split_type |-> "test", path |-> "splits/complete/train",
       objects |-> HeldOut(data, percent, pol)]>>

\* How far write_dataset gets: it completes, the copy of the test subset's
\* files fails, or the plugin's write_data raises in its first or second call.
WriteDatasetEnds == {"ok", "copy", "write_data:1", "write_data:2"}

\* DefaultDatasetWriter.write_dataset(obj_list): split, os.mkdir(test),
\* copy the test subset's files, then write_out_complete_set on the rest.
\* fs.written lists the write_data calls made, the failing one included.
WriteDataset ==
    /\ CanCall
    /\ LET obj_list == objects.list
           percent == writer.test_percent
           pol == writer.rounding
       IN  IF ~SplitValid(percent)
           THEN /\ Record("write_dataset", "ConfigurationError")
                /\ UNCHANGED fs
           ELSE IF fs.test.exists
           THEN /\ Record("write_dataset", "FileExistsError")
                /\ UNCHANGED fs
           ELSE \E end \in WriteDatasetEnds :
                   LET test_subset == HeldOut(obj_list, percent, pol)
                       dev_subset == Remainder(obj_list, percent, pol)
                       calls == WriteOutCompleteSet(dev_subset, percent, pol)
                   IN  /\ end = "copy" => test_subset # <<>>
                       /\ fs' = [fs EXCEPT
                               !.test = IF end = "copy"
                                        THEN CopyDataLocally(test_subset, FALSE)
                                        ELSE CopyDataLocally(test_subset, TRUE),
                               !.train = IF end = "copy" THEN @
                                         ELSE [exists |-> TRUE, files |-> <<>>],
                               !.written =
                                  CASE end = "ok" -> calls
                                    [] end = "copy" -> <<>>
                                    [] end = "write_data:1" -> SubSeq(calls, 1, 1)
                                    [] end = "write_data:2" -> calls,
                               !.dirops = @ \cup {"mkdir:test"} \cup
                                          (IF end = "copy" \/ fs.train.exists THEN {}
                                           ELSE {"makedirs:train"})]
                       /\ Record("write_dataset",
                                 CASE end = "ok" -> "ok"
                                   [] end = "copy" -> "IOError"
                                   [] OTHER -> "PluginError")
    /\ UNCHANGED <<git, tr, classes, test_mode, config, cr, oracle, output, writer, objects>>

\* A metadata list that names each record by its id alone.
MetadataImageIdsBare(ids) == [i \in 1..Len(ids) |-> <<ids[i][2]>>]

\* (image_id[0].name, image_id[1]) for every selected record.
MetadataImageIds(ids) == [i \in 1..Len(ids) |-> <<ids[i][1].name, ids[i][2]>>]

\* DefaultDatasetWriter.write_metadata: iterating image_ids = None is a
\* TypeError raised before the file is opened.
WriteMetadata ==
    /\ CanCall
    /\ IF ~writer.image_ids.given
       THEN /\ Record("write_metadata", TypeErr)
            /\ UNCHANGED fs
       ELSE \E ok \in BOOLEAN :
               /\ fs' = [fs EXCEPT
                           !.meta = WriteJson(@, "write_metadata",
                                              MetadataImageIds(writer.image_ids.value), ok),
                           !.meta_opens = @ + 1]
               /\ Record("write_metadata", IF ok THEN "ok" ELSE "SerializationError")
    /\ UNCHANGED <<git, tr, classes, test_mode, config, cr, oracle, output, writer, objects>>

\* write_additional_files, the plugin's.
WriteAdditionalFiles ==
    /\ CanCall
    /\ \E out \in {"ok"} \cup PluginErrors : Record("write_additional_files", out)
    /\ UNCHANGED <<git, tr, classes, test_mode, createVars, writer, objects>>

\* -------------------------------------------------------------------- Spec

\* One dataset creation: CreateInput, the writer, and its stages in whatever
\* order the plugin calls them.
PipelineConfigs ==
    {[BatchConfig EXCEPT !.dataset_path = d, !.test_percent = t, !.overwrite_local = o] :
        d \in {"absent", "dp"}, t \in {Given(v) : v \in TestPercents},
        o \in {"True", "False"}}

Init ==
    /\ classes = <<DatasetWriterClass, DefaultDatasetWriterClass, PluginWriterClass>>
    /\ call = NoCall
    /\ test_mode = FALSE
    /\ config \in PipelineConfigs
    /\ fs \in {FreshFs(t, "absent") : t \in {"absent", "old"}}
    /\ cr = NewCreate
    /\ oracle = <<>>
    /\ tr = NoTrain
    /\ git = NoGit
    /\ output = NoOutput
    /\ writer = NoWriter
    /\ objects = NoObjects
    /\ hist = NoHist

Stage ==
    \/ LoadImageIds
    \/ InteractiveFilter
    \/ LoadData
    \/ ConstructAll
    \/ WriteDataset
    \/ WriteMetadata
    \/ WriteAdditionalFiles

Next ==
    \/ CI_ArtifactPath
    \/ CI_Imageset
    \/ CI_Metadata
    \/ CI_DatasetDir
    \/ CI_Download
    \/ CI_Plugin
    \/ CI_WriteMetadata
    \/ WriterInit
    \/ Stage

Spec == Init /\ [][Next]_vars

\* ------------------------------------------------------------ SpecRegistry

InitRegistry ==
    /\ classes = <<DatasetWriterClass, DefaultDatasetWriterClass>>
    /\ call = NoCall
    /\ test_mode \in BOOLEAN
    /\ config = BatchConfig
    /\ fs = FreshFs("absent", "absent")
    /\ cr = NewCreate
    /\ oracle = <<>>
    /\ tr = NoTrain
    /\ git = NoGit
    /\ output = NoOutput
    /\ writer = NoWriter
    /\ objects = NoObjects
    /\ hist = NoHist

\* class Plugin(<last class>): ..., at import time, before any stage runs.
DefineSubclass ==
    /\ call = NoCall
    /\ Len(classes) < 2 + MaxPluginClasses
    /\ \E body \in PluginBodies :
          classes' = Append(classes,
                            MakeClass(Len(classes) + 1, classes[Len(classes)].registry, body))
    /\ UNCHANGED <<git, tr, call, test_mode, createVars, writerVars>>

\* instance.<name>(...) on an instance of the most derived class. The
\* wrappers keep no state between calls, so one invocation is recorded.
Invoke ==
    /\ call = NoCall
    /\ \E n \in MethodNames, choice \in {"ok"} \cup PluginErrors :
          LET m == Dispatch(classes, Len(classes), n)
              out == FuncOutcome(m.impl, choice)
              run == RunLayers(m.layers, out)
          IN  call' = [name |-> n, impl |-> m.impl, layers |-> m.layers, out |-> out,
                       log |-> run.log, shown |-> SpinnerShown(test_mode, run.log),
                       res |-> run.res, before |-> {}, empty_selection |-> FALSE]
    /\ UNCHANGED <<git, tr, classes, test_mode, createVars, writerVars>>

NextRegistry == DefineSubclass \/ Invoke

SpecRegistry == InitRegistry /\ [][NextRegistry]_vars

\* -------------------------------------------------------------- SpecCreate

\* CreateInput(config, plugin_name) then CreateOutput(create), for every
\* configuration and every state of the target directory.
InitCreate ==
    /\ classes = <<DatasetWriterClass, DefaultDatasetWriterClass>>
    /\ call = NoCall
    /\ test_mode = FALSE
    /\ config \in ConfigsCreate
    /\ fs \in {FreshFs(t, c) : t \in {"absent", "empty", "old"}, c \in {"absent", "old"}}
    /\ cr = NewCreate
    /\ oracle = <<>>
    /\ tr = NoTrain
    /\ git = NoGit
    /\ output = NoOutput
    /\ writer = NoWriter
    /\ objects = NoObjects
    /\ hist = NoHist

NextCreate ==
    \/ CI_ArtifactPath
    \/ CI_Imageset
    \/ CI_Metadata
    \/ CI_DatasetDir
    \/ CI_Download
    \/ CI_Plugin
    \/ CI_WriteMetadata
    \/ CO_Init

SpecCreate == InitCreate /\ [][NextCreate]_vars

\* -------------------------------------------------------------- SpecInputs

\* The construction of one CreateInput or of one TrainInput, for every
\* configuration, every argument list and every state of the target directory.
IdleCreate == [NewCreate EXCEPT !.pc = "none"]

InitInputs ==
    /\ classes = <<DatasetWriterClass, DefaultDatasetWriterClass>>
    /\ call = NoCall
    /\ test_mode = FALSE
    /\ fs \in {FreshFs(t, c) : t \in {"absent", "empty", "old"}, c \in {"absent", "old"}}
    /\ \/ config \in ConfigsCreate /\ cr = NewCreate /\ tr = NoTrain
       \/ config = BatchConfig /\ cr = IdleCreate /\ \E args \in TrainArgs : tr = NewTrain(args)
    /\ git = NoGit
    /\ oracle = <<>>
    /\ output = NoOutput
    /\ writer = NoWriter
    /\ objects = NoObjects
    /\ hist = NoHist

NextInputs ==
    \/ CI_ArtifactPath
    \/ CI_Imageset
    \/ CI_Metadata
    \/ CI_DatasetDir
    \/ CI_Download
    \/ CI_Plugin
    \/ CI_WriteMetadata
    \/ TI_ArtifactPath
    \/ TI_Dataset

SpecInputs == InitInputs /\ [][NextInputs]_vars

\* ----------------------------------------------------------------- SpecGit

\* Calls of the functions of git.py from any working directory.
InitGit ==
    /\ classes = <<DatasetWriterClass, DefaultDatasetWriterClass>>
    /\ call = NoCall
    /\ test_mode = FALSE
    /\ config = BatchConfig
    /\ fs = FreshFs("absent", "absent")
    /\ cr = NewCreate
    /\ oracle = <<>>
    /\ tr = NoTrain
    /\ \E dir \in GitDirs : git = StartGit(dir)
    /\ output = NoOutput
    /\ writer = NoWriter
    /\ objects = NoObjects
    /\ hist = NoHist

NextGit == GitSha \/ GitPatchTracked \/ GitPatchUntracked

SpecGit == InitGit /\ [][NextGit]_vars

\* --------------------------------------------------------------- SpecSplit

\* write_dataset(obj_list) on a writer constructed after a completed
\* CreateInput(BatchConfig), for every list the caller can pass and every
\* test_percent the plugin can have put on the CreateInput.
MaxObjects == 10

\* Lists of distinct objects, in ascending and in descending order.
ObjectLists ==
    {[i \in 1..n |-> i] : n \in 0..MaxObjects}
       \cup {[i \in 1..n |-> n + 1 - i] : n \in 2..MaxObjects}

\* test_percent in hundredths.
SplitPercents == {0, 20, 50, 100, 150}

\* The file system and the CreateInput after CreateInput(BatchConfig) on an
\* absent target directory.
CreatedFs ==
    [FreshFs("used", "absent") EXCEPT
        !.root = TRUE,
        !.meta = WriteJson(NoFile, "CreateInput", LoadedImageIds, TRUE),
        !.meta_opens = 1,
        !.dirops = {"makedirs:dp", "makedirs:root"}]

CreatedInput ==
    [pc |-> "done",
     attrs |-> {"config", "dataset_path", "metadata", "plugin_cache", "plugin_metadata",
                "plugin_config"},
     metadata |-> {"created_by", "comments", "dataset_name", "kfolds", "test_percent",
                   "date_started_at", "imagesets_used", "imageset_data", "architecture"},
     dataset_path |-> "dp", imageset_list |-> <<"setA">>, error |-> None]

InitSplit ==
    /\ classes = <<DatasetWriterClass, DefaultDatasetWriterClass, PluginWriterClass>>
    /\ call = NoCall
    /\ test_mode = FALSE
    /\ config = BatchConfig
    /\ fs = CreatedFs
    /\ cr = CreatedInput
    /\ oracle = <<>>
    /\ tr = NoTrain
    /\ git = NoGit
    /\ output = NoOutput
    /\ \E percent \in SplitPercents, pol \in SplitPolicies :
          writer = [NoWriter EXCEPT !.state = "ready", !.suffix = ".json",
                                    !.test_percent = percent,
                                    !.imageset_paths = <<PathA, PathC>>,
                                    !.rounding = pol]
    /\ \E list \in ObjectLists : objects = [made |-> TRUE, list |-> list]
    /\ hist = NoHist

NextSplit == WriteDataset

SpecSplit == InitSplit /\ [][NextSplit]_vars

\* ------------------------------------------------- claims on SpecRegistry

\* The stages DatasetWriter registers a wrapper for.
RegisteredStages == {n \in MethodNames : DatasetWriterBody[n].kind = "spinner"}

BaseLayer(n) == Layer(SpinnerDec, DatasetWriterBody[n].text)

CountTail(log, tails) == Cardinality({i \in 1..Len(log) : log[i].tail \in tails})

\* C1: every subclass of DatasetWriter, at any depth, that overrides a
\* registered stage without decorating it dispatches to the base wrapper
\* applied once to the override, with the base's text; an invocation of it
\* announces start exactly once and exactly one of 'Complete.' / 'Failed.'.
C1_OverrideWrappedOnce ==
    /\ \A k \in 2..Len(classes), n \in RegisteredStages :
          classes[k].body[n] = Raw =>
             Dispatch(classes, k, n) = [impl |-> k, layers |-> <<BaseLayer(n)>>]
    /\ (/\ call # NoCall
        /\ call.name \in RegisteredStages
        /\ call.impl >= 2
        /\ classes[call.impl].body[call.name] = Raw)
       => /\ CountTail(call.log, {"start"}) = 1
          /\ CountTail(call.log, {"Complete.", "Failed."}) = 1
          /\ call.log[1] = Sig(SpinnerDec, DatasetWriterBody[call.name].text, "start")
          /\ call.log[2].text = DatasetWriterBody[call.name].text

\* A plugin class two levels below DefaultDatasetWriter overrides a
\* registered stage undecorated, below a class that decorated the same stage
\* itself, and the override raised.
C1_Witness ==
    /\ Len(classes) = 4
    /\ call # NoCall
    /\ call.name \in RegisteredStages
    /\ call.impl = 4
    /\ classes[4].body[call.name] = Raw
    /\ classes[3].body[call.name].kind = "other"
    /\ call.out \in PluginErrors
    /\ CountTail(call.log, {"Failed."}) = 1

\* The wrapper a class body declares for a name itself.
OwnLayer(b) == Layer(IF b.kind = "spinner" THEN SpinnerDec ELSE OtherDec, b.text)

\* The registration nearest to class k among k and its ancestors.
RECURSIVE NearestRegistration(_, _, _)
NearestRegistration(cs, k, n) ==
    IF k <= 1 THEN BaseLayer(n)
    ELSE IF cs[k].body[n].kind \in {"spinner", "other"} THEN OwnLayer(cs[k].body[n])
    ELSE NearestRegistration(cs, k - 1, n)

\* C2: a subclass that registers its own wrapper for a stage an ancestor
\* registered is wrapped by its own wrapper only, and a further subclass
\* overriding the stage undecorated gets the most derived ancestor's
\* wrapper and arguments.
C2_MostDerivedRegistrationWins ==
    \A k \in 3..Len(classes), n \in RegisteredStages :
        /\ classes[k].body[n].kind \in {"spinner", "other"} =>
              Dispatch(classes, k, n).layers = <<OwnLayer(classes[k].body[n])>>
        /\ classes[k].body[n] = Raw =>
              Dispatch(classes, k, n).layers = <<NearestRegistration(classes, k - 1, n)>>

\* C3: when the wrapped function raises, every cli_spinner around it has
\* called succeed(text + 'Failed.') by the time the caller sees the error,
\* the caller sees that same error, and no 'Complete.' is announced.
C3_FailedThenReraised ==
    (call # NoCall /\ call.out # "ok" /\ call.layers # <<>>)
    => /\ call.res = call.out
       /\ \A i \in 1..Len(call.layers) :
             call.layers[i].dec = SpinnerDec =>
                \E j \in 1..Len(call.log) :
                    call.log[j] = Sig(SpinnerDec, call.layers[i].args, "Failed.")
       /\ CountTail(call.log, {"Complete."}) = 0
       /\ call.log[Len(call.log)] =
             Sig(call.layers[1].dec, call.layers[1].args, "Failed.")

\* A plugin's undecorated override of a registered stage raised PluginError
\* outside test mode.
C3_Witness ==
    /\ call # NoCall
    /\ ~test_mode
    /\ call.impl >= 3
    /\ call.name = "load_data"
    /\ call.layers = <<BaseLayer("load_data")>>
    /\ call.out \in PluginErrors
    /\ call.res = call.out
    /\ call.shown = call.log

\* ----------------------------------------------------------- claims on Spec

StageOrder ==
    <<"load_image_ids", "interactive_filter", "load_data", "construct_all",
      "write_dataset", "write_metadata", "write_additional_files">>

StageIndex(n) == CHOOSE i \in 1..Len(StageOrder) : StageOrder[i] = n
Predecessors(n) == {StageOrder[j] : j \in 1..(StageIndex(n) - 1)}

\* The stages from load_data on.
LateStages == {n \in MethodNames : StageIndex(n) >= StageIndex("load_data")}

\* C4: the stages run in the strict order load_image_ids, interactive_filter,
\* load_data, construct_all, write_dataset, write_metadata,
\* write_additional_files: a stage runs only when every stage before it has
\* completed, so never on the dummy values of the constructor.
C4_StagesInStrictOrder ==
    call # NoCall => Predecessors(call.name) \subseteq call.before

\* C5: during one dataset creation metadata.json is written exactly once,
\* and only after write_dataset has completed.
C5_MetadataWrittenOnceAtEnd ==
    /\ fs.meta_opens <= 1
    /\ fs.meta_opens > 0 => "write_dataset" \in hist.completed

\* C6: writing metadata.json is all-or-nothing: a failed serialization never
\* leaves a new or truncated metadata.json at the dataset root.
C6_MetadataAllOrNothing ==
    fs.meta.state # "partial"

\* C7: after a failure of a stage at or after load_data the dataset root
\* holds a metadata.json only if the write_metadata stage completed, and the
\* scratch directory is still in place.
C7_NoMetadataAfterFailedRun ==
    (hist.failed \cap LateStages # {})
    => /\ fs.meta.state # "absent" => "write_metadata" \in hist.completed
       /\ "load_data" \in hist.completed => fs.scratch.exists

OutOfRange(c) == c.test_percent.given /\ c.test_percent.value \notin 0..100

\* C8: a configured test_percent outside [0, 1] is rejected with a
\* configuration error before any directory is created or deleted.
C8_TestPercentRejectedFirst ==
    OutOfRange(config)
    => /\ fs.dirops = {}
       /\ cr.pc # "done"
       /\ cr.pc = "raised" => cr.error = "ConfigurationError"

\* C9: with the selection left empty by interactive_filter, load_data and
\* the later stages of DefaultDatasetWriter fail with an empty-dataset error.
C9_EmptySelectionRejected ==
    (/\ call # NoCall
     /\ call.name \in {"load_data", "write_dataset", "write_metadata"}
     /\ "interactive_filter" \in call.before
     /\ call.empty_selection)
    => call.res = "EmptyDatasetError"

\* C16: load_image_ids run again on unchanged imageset directories, on the
\* same writer too, yields the same tags_df and image_ids: the records of the
\* directories, each exactly once, in scan order.
C16_LoadImageIdsIdempotent ==
    (call # NoCall /\ call.name = "load_image_ids" /\ call.res = "ok")
    => /\ writer.tags_df = ScanAll(writer.imageset_paths)
       /\ writer.image_ids = Given(IndexOf(ScanAll(writer.imageset_paths)))

\* C17: with a metadata suffix other than '.json', load_image_ids fails and
\* leaves tags_df and image_ids as they were before the call.
C17_BadSuffixFailsFirst ==
    [][(/\ writer.state = "ready"
        /\ writer.suffix # ".json"
        /\ hist'.ncalls = hist.ncalls + 1
        /\ call'.name = "load_image_ids")
       => /\ call'.res # "ok"
          /\ writer'.tags_df = writer.tags_df
          /\ writer'.image_ids = writer.image_ids]_vars

\* load_image_ids raised on a '.yml' suffix after interactive_filter had set
\* image_ids, and image_ids is still the list interactive_filter left.
C17_Witness ==
    /\ call # NoCall
    /\ call.name = "load_image_ids"
    /\ call.res = "Exception"
    /\ writer.suffix = ".yml"
    /\ "interactive_filter" \in call.before
    /\ writer.image_ids = Given(<<>>)
    /\ writer.tags_df = <<>>

\* C18: the image_ids a completed write_metadata wrote to metadata.json are
\* the writer's selection: one (imageset name, record id) pair per selected
\* record, in selection order; when the filter kept every record they are
\* the ids of tags_df in order.
C18_MetadataListsSelection ==
    (call # NoCall /\ call.name = "write_metadata" /\ call.res = "ok")
    => LET selection == writer.image_ids.value
           listed == fs.meta.image_ids
       IN  /\ fs.meta.state = "complete"
           /\ fs.meta.by = "write_metadata"
           /\ Len(listed) = Len(selection)
           /\ \A i \in 1..Len(selection) :
                 listed[i] = <<selection[i][1].name, selection[i][2]>>
           /\ writer.groups = <<"all">>
              => /\ Len(listed) = Len(writer.tags_df)
                 /\ \A i \in 1..Len(listed) : listed[i][2] = writer.tags_df[i].id

\* write_metadata completed after load_image_ids found three records and
\* interactive_filter kept the two tagged 'sun'.
C18_Witness ==
    /\ call # NoCall
    /\ call.name = "write_metadata"
    /\ call.res = "ok"
    /\ {"load_image_ids", "interactive_filter"} \subseteq call.before
    /\ writer.groups = <<"sun">>
    /\ Len(writer.tags_df) = 3
    /\ fs.meta.image_ids = <<<<"set1", "001">>, <<"set2", "003">>>>

\* C19: load_data and write_dataset invoked again, after an attempt that
\* already created their output directories, do not fail on the existing
\* directory.
C19_RestartRecreates ==
    (call # NoCall /\ call.name \in {"load_data", "write_dataset"})
    => call.res # "FileExistsError"

\* The attributes of the CreateInput and the keys of its metadata that
\* DatasetWriter.__init__ reads.
AttrsReadByWriter ==
    {"metadata", "kfolds", "test_percent", "plugin_metadata", "dataset_path", "imageset_paths"}
MetadataReadByWriter == {"dataset_name", "created_by", "comments", "architecture"}

\* C22: a CreateInput whose construction completed has every attribute and
\* metadata key DatasetWriter.__init__ reads, so constructing the writer
\* from it never fails on a missing attribute.
C22_CreateInputFeedsWriter ==
    /\ cr.pc = "done"
       => /\ AttrsReadByWriter \subseteq cr.attrs
          /\ MetadataReadByWriter \subseteq cr.metadata
    /\ writer.state # "AttributeError"

\* C23: the pairs a completed write_metadata wrote for two distinct selected
\* records are distinct.
C23_DistinctRecordsDistinctPairs ==
    (call # NoCall /\ call.name = "write_metadata" /\ call.res = "ok")
    => \A i, j \in 1..Len(writer.image_ids.value) :
          writer.image_ids.value[i] # writer.image_ids.value[j]
          => fs.meta.image_ids[i] # fs.meta.image_ids[j]

\* ----------------------------------------------------- claims on SpecCreate\* ----------------------------------------------------- claims on SpecCreate

FullySpecified(c) ==
    /\ c.dataset_path # "absent"
    /\ c.overwrite_local \in {"True", "False"}
    /\ c.imageset.given
    /\ c.created_by = "given"
    /\ c.comments = "given"
    /\ c.dataset_name = "given"
    /\ c.upload # "absent"
    /\ c.delete_local # "absent"

\* C10: with every choice stated in the configuration, CreateInput and
\* CreateOutput put no prompt to the user, whatever the target directory.
C10_BatchNeverPrompts ==
    FullySpecified(config) => oracle = <<>>

\* C11: with dataset_path omitted from the configuration, CreateInput puts
\* the dataset in the plugin cache's cleaned 'temp' subpath: once the dataset
\* directory step has run, dataset_path is that subpath, the directory
\* <dataset_path>/<dataset_name> exists, and no error was raised by the step.
C11_OmittedPathUsesTemp ==
    (config.dataset_path = "absent" /\ "dataset_name" \in cr.metadata)
    => /\ cr.dataset_path = "cache/temp"
       /\ fs.root
       /\ cr.error # TypeErr

\* C12: a configuration without the 'plugin' field is rejected before
\* CreateInput deletes or creates a directory, downloads an imageset or
\* prompts the user.
C12_MissingPluginRejectedFirst ==
    config.plugin = "absent"
    => /\ fs.dirops = {}
       /\ oracle = <<>>
       /\ "imageset_data" \notin cr.metadata
       /\ cr.pc # "done"

\* ------------------------------------------------------ claims on SpecSplit

\* The latest stage call was write_dataset and it completed.
WriteDatasetDone ==
    call # NoCall /\ call.name = "write_dataset" /\ call.res = "ok"

Elems(sq) == {sq[i] : i \in 1..Len(sq)}

\* C13: a completed write_dataset leaves the held-out set under <root>/test,
\* has the inner training subset written under <root>/splits/complete/train
\* and the inner test subset under <root>/splits/complete/test.
C13_LayoutReproduced ==
    WriteDatasetDone
    => /\ fs.test.exists
       /\ Len(fs.written) = 2
       /\ fs.written[1].split_type = "train"
       /\ fs.written[1].path = "splits/complete/train"
       /\ fs.written[2].split_type = "test"
       /\ fs.written[2].path = "splits/complete/test"

PosIn(list, x) == CHOOSE i \in 1..Len(list) : list[i] = x

KeepsOrder(sub, list) ==
    \A i, j \in 1..Len(sub) : i < j => PosIn(list, sub[i]) < PosIn(list, sub[j])

RoundHalfUp(n, percent) == (n * percent + 50) \div 100

C20_SplitsDisjointAndCover ==
    /\ \A i \in 1..Len(fs.written) :
          Elems(fs.written[i].objects) \cap Elems(fs.test.files) = {}
    /\ WriteDatasetDone
       => /\ Len(fs.written) = 2
          /\ fs.written[1].split_type = "train"
          /\ fs.written[2].split_type = "test"
          /\ LET top == Elems(fs.test.files)
                 train == Elems(fs.written[1].objects)
                 test == Elems(fs.written[2].objects)
             IN  /\ top \cap train = {} /\ top \cap test = {} /\ train \cap test = {}
                 /\ top \cup train \cup test = Elems(objects.list)
                 /\ Len(fs.test.files) + Len(fs.written[1].objects)
                       + Len(fs.written[2].objects) = Len(objects.list)

\* write_dataset completed on 10 objects at 0.5 with all three sets non-empty.
C20_Witness ==
    /\ WriteDatasetDone
    /\ Len(objects.list) = 10
    /\ writer.test_percent = 50
    /\ fs.test.files # <<>>
    /\ fs.written[1].objects # <<>>
    /\ fs.written[2].objects # <<>>

\* ----------------------------------------------------- claims on SpecInputs

\* The first prompt was the overwrite question and the user answered yes.
Consented == oracle # <<>> /\ oracle[1] = Overwrite(TRUE)

\* C21: CreateInput and TrainInput remove the old contents of the directory
\* they were given only if the overwrite flag is set or the user answered
\* yes; after a no the construction is cancelled with the directory as it
\* was and no later step of the constructor has run.
C21_OverwriteOnlyOnConsent ==
    /\ "rmtree:dp" \in fs.dirops => config.overwrite_local = "True" \/ Consented
    /\ "rmtree:ap" \in fs.dirops => tr.args.overwrite \/ Consented
    /\ (oracle # <<>> /\ oracle[1] = Overwrite(FALSE))
       => /\ cr.pc \in {"none", "exited"}
          /\ tr.pc \in {"none", "exited"}
          /\ fs.target = "old"
          /\ fs.dirops = {}
          /\ ~fs.root
          /\ fs.meta = NoFile
          /\ Len(oracle) = 1
          /\ cr.metadata = {}
          /\ cr.imageset_list = <<>>
          /\ tr.dataset = None

\* The user declined the overwrite in a TrainInput construction.
C21_Witness ==
    /\ tr.pc = "exited"
    /\ tr.args.artifact_path = "ap"
    /\ ~tr.args.overwrite
    /\ oracle = <<Overwrite(FALSE)>>
    /\ fs.target = "old"

\* -------------------------------------------------------- claims on SpecGit

\* C24: whenever git_sha, git_patch_tracked or git_patch_untracked returns,
\* the working directory is the one the process was in before the call.
C24_CwdRestoredOnReturn ==
    git.result = "returned" => git.cwd = git.before

====
